---------------------------- MODULE Spec2Model ----------------------------
(***************************************************************************)
(* A model of easy-aria's EasyAria class (src/src/EasyAria.ts): the typed  *)
(* set / get / unset accessors over the aria-* attributes of one wrapped   *)
(* Element, and the static ID generator used for IDREF attributes.         *)
(*                                                                         *)
(* JavaScript values are records tagged by the field t.  Strings are TLA+  *)
(* strings; the string conversions of the code (toLowerCase, Number(),     *)
(* String()) are computed character by character.  Number literals are     *)
(* restricted to optionally signed decimal integers with surrounding       *)
(* white space: fractions, exponents, radix prefixes and Infinity are not  *)
(* among the modelled inputs, and of the white space characters the tab,   *)
(* line feed, form feed, carriage return and space are.                    *)
(*                                                                         *)
(* The role attribute (getRole, setRole) is no aria-* attribute and is not *)
(* part of the state; call(cb) runs code of the caller, whose writes to    *)
(* the Element are those of SetAttributeCall.                              *)
(***************************************************************************)
EXTENDS Integers, Sequences, FiniteSets

VARIABLES
  subject,    \* the un-prefixed attribute name this run of calls exercises
  attrs,      \* the aria-* attributes of the wrapped Element: key -> raw string
  ids,        \* the id property of every node of the document ("" when none)
  idCounter,  \* the static EasyAria.#idCounter
  call,       \* the last call made: [op, args]
  ret         \* its outcome: a returned value or a thrown TypeError

vars == <<subject, attrs, ids, idCounter, call, ret>>

----------------------------------------------------------------------------
(* Bounds of the model.                                                    *)

\* Nodes of the document; node 1 is the wrapped Element.
NumNodes == 3
\* Longest Array / NodeList passed to set().
MaxListLen == 2

Nodes == 1..NumNodes
\* The wrapped Element (this.el).
El == 1

----------------------------------------------------------------------------
(* JavaScript values.                                                      *)

Undefined == [t |-> "undefined"]
Null == [t |-> "null"]
NaN == [t |-> "nan"]
Obj == [t |-> "object"]
Func == [t |-> "function"]
\* The receiver of the call (`this`).
This == [t |-> "this"]
Bool(b) == [t |-> "boolean", v |-> b]
Num(n) == [t |-> "number", v |-> n]
BigInt(n) == [t |-> "bigint", v |-> n]
Str(s) == [t |-> "string", v |-> s]
Element(n) == [t |-> "element", v |-> n]
Array(items) == [t |-> "array", v |-> items]
NodeList(nodes) == [t |-> "nodelist", v |-> nodes]

\* typeof x
TypeOf(x) ==
  CASE x.t = "nan" -> "number"
    [] x.t \in {"null", "element", "array", "nodelist", "this"} -> "object"
    [] OTHER -> x.t

\* x instanceof Element
InstanceOfElement(x) == x.t = "element"

\* x === y, for y a boolean or string literal of the code
StrictEquals(x, y) == x.t = y.t /\ x = y

----------------------------------------------------------------------------
(* Strings.                                                                *)

CharAt(s, i) == SubSeq(s, i, i)

UpperCaseLetters ==
  <<"A","B","C","D","E","F","G","H","I","J","K","L","M",
    "N","O","P","Q","R","S","T","U","V","W","X","Y","Z">>
LowerCaseLetters ==
  <<"a","b","c","d","e","f","g","h","i","j","k","l","m",
    "n","o","p","q","r","s","t","u","v","w","x","y","z">>

\* Each letter of one alphabet to the letter at its place in the other.
UpperToLower ==
  [c \in {UpperCaseLetters[i] : i \in 1..26} |->
     LowerCaseLetters[CHOOSE i \in 1..26 : UpperCaseLetters[i] = c]]
LowerToUpper ==
  [c \in {LowerCaseLetters[i] : i \in 1..26} |->
     UpperCaseLetters[CHOOSE i \in 1..26 : LowerCaseLetters[i] = c]]

\* The letter table gives for c, or c itself.
MapChar(c, table) == IF c \in DOMAIN table THEN table[c] ELSE c

RECURSIVE MapString(_, _)
MapString(s, table) ==
  IF Len(s) = 0 THEN ""
  ELSE MapChar(CharAt(s, 1), table) \o MapString(SubSeq(s, 2, Len(s)), table)

\* String.prototype.toLowerCase, on ASCII
ToLowerCase(s) == MapString(s, UpperToLower)
\* String.prototype.toUpperCase, on ASCII (used to spell the inputs)
ToUpperCase(s) == MapString(s, LowerToUpper)

Digits == <<"0","1","2","3","4","5","6","7","8","9">>
IsDigit(c) == \E i \in 1..10 : Digits[i] = c
DigitValue(c) == (CHOOSE i \in 1..10 : Digits[i] = c) - 1
\* StrWhiteSpaceChar of the StringToNumber grammar: the white space and
\* line terminator characters that a string of this module can hold.
IsWhiteSpace(c) == c \in {" ", "\t", "\n", "\r", "\f"}

RECURSIVE TrimStart(_)
TrimStart(s) ==
  IF Len(s) > 0 /\ IsWhiteSpace(CharAt(s, 1))
  THEN TrimStart(SubSeq(s, 2, Len(s))) ELSE s

RECURSIVE TrimEnd(_)
TrimEnd(s) ==
  IF Len(s) > 0 /\ IsWhiteSpace(CharAt(s, Len(s)))
  THEN TrimEnd(SubSeq(s, 1, Len(s) - 1)) ELSE s

AllDigits(s) == Len(s) > 0 /\ \A i \in 1..Len(s) : IsDigit(CharAt(s, i))

RECURSIVE DecimalValue(_)
DecimalValue(s) ==
  IF Len(s) = 0 THEN 0
  ELSE 10 * DecimalValue(SubSeq(s, 1, Len(s) - 1)) + DigitValue(CharAt(s, Len(s)))

\* StringToNumber: white space is trimmed, the empty string is 0, an
\* optionally signed run of decimal digits is its value, anything else NaN.
StringToNumber(s) ==
  LET body == TrimEnd(TrimStart(s))
      signed == Len(body) > 0 /\ CharAt(body, 1) \in {"+", "-"}
      digits == IF signed THEN SubSeq(body, 2, Len(body)) ELSE body
  IN  IF Len(body) = 0 THEN Num(0)
      ELSE IF ~AllDigits(digits) THEN NaN
      ELSE IF signed /\ CharAt(body, 1) = "-" THEN Num(0 - DecimalValue(digits))
      ELSE Num(DecimalValue(digits))

\* Number(x)
ToNumber(x) ==
  CASE x.t = "number" -> x
    [] x.t = "bigint" -> Num(x.v)
    [] x.t = "string" -> StringToNumber(x.v)
    [] x.t = "null" -> Num(0)
    [] x.t = "boolean" -> Num(IF x.v THEN 1 ELSE 0)
    [] OTHER -> NaN

\* Number.isNaN(x)
IsNaN(x) == x.t = "nan"

RECURSIVE NaturalToString(_)
NaturalToString(n) ==
  IF n < 10 THEN Digits[n + 1]
  ELSE NaturalToString(n \div 10) \o Digits[(n % 10) + 1]

\* String(x) for the values the code stringifies
StringOf(x) ==
  CASE x.t = "string" -> x.v
    [] x.t = "boolean" -> IF x.v THEN "true" ELSE "false"
    [] x.t = "number" ->
         IF x.v < 0 THEN "-" \o NaturalToString(0 - x.v) ELSE NaturalToString(x.v)
    [] x.t = "nan" -> "NaN"
    [] x.t = "null" -> "null"
    [] OTHER -> "undefined"

----------------------------------------------------------------------------
(* The DOM of the wrapped Element: its attributes are a map from the full  *)
(* attribute name to the raw string.                                       *)

NoAttributes == [k \in {} |-> ""]

\* el.getAttribute(name): the raw string, or null when absent
GetAttribute(m, name) == IF name \in DOMAIN m THEN Str(m[name]) ELSE Null

\* el.setAttribute(name, value)
SetAttribute(m, name, value) ==
  [k \in DOMAIN m \cup {name} |-> IF k = name THEN value ELSE m[k]]

\* el.removeAttribute(name)
RemoveAttribute(m, name) == [k \in DOMAIN m \ {name} |-> m[k]]

----------------------------------------------------------------------------
(* Outcomes of a method call.                                              *)

Return(v) == [kind |-> "return", value |-> v]
\* Every throw of the class is a TypeError; why names the throw statement.
Throw(why) == [kind |-> "throw", error |-> "TypeError", why |-> why]

Outcome(w, r) == [w |-> w, ret |-> r]

\* arguments[i], undefined when not passed
Arg(args, i) == IF i <= Len(args) THEN args[i] ELSE Undefined

----------------------------------------------------------------------------
(* ID generation.                                                          *)

IdPrefix == "easy-aria-id-"

\* GenerateId with a fault: the counter is read but not advanced.
GenerateId_NoIncrement(w) ==
  [w |-> w, id |-> IdPrefix \o NaturalToString(w.idCounter)]

\* GenerateId with a fault: the counter is advanced before it is read.
GenerateId_PreIncrement(w) ==
  [w |-> [w EXCEPT !.idCounter = @ + 1],
   id |-> IdPrefix \o NaturalToString(w.idCounter + 1)]

\* static #generateId(): `easy-aria-id-${this.#idCounter++}`
GenerateId(w) ==
  [w |-> [w EXCEPT !.idCounter = @ + 1],
   id |-> IdPrefix \o NaturalToString(w.idCounter)]

\* GetId with a fault: an id is generated whether or not el has one.
GetId_AlwaysGenerate(w, el) ==
  IF ~InstanceOfElement(el) THEN [w |-> w, id |-> ""]
  ELSE LET g == GenerateId(w)
       IN  [w |-> [g.w EXCEPT !.ids[el.v] = g.id], id |-> g.id]

\* static #getId(el)
GetId(w, el) ==
  IF ~InstanceOfElement(el) THEN [w |-> w, id |-> ""]
  ELSE IF w.ids[el.v] = ""
  THEN LET g == GenerateId(w)
       IN  [w |-> [g.w EXCEPT !.ids[el.v] = g.id], id |-> g.id]
  ELSE [w |-> w, id |-> w.ids[el.v]]

\* MapGetId with a fault: the items are resolved from the last to the first.
RECURSIVE MapGetId_RightToLeft(_, _)
MapGetId_RightToLeft(w, items) ==
  IF Len(items) = 0 THEN [w |-> w, ids |-> <<>>]
  ELSE LET rest == MapGetId_RightToLeft(w, Tail(items))
           first == GetId(rest.w, Head(items))
       IN  [w |-> first.w, ids |-> <<first.id>> \o rest.ids]

\* Array.prototype.map.call(value, (el) => EasyAria.#getId(el)), left to right
RECURSIVE MapGetId(_, _)
MapGetId(w, items) ==
  IF Len(items) = 0 THEN [w |-> w, ids |-> <<>>]
  ELSE LET first == GetId(w, Head(items))
           rest == MapGetId(first.w, Tail(items))
       IN  [w |-> rest.w, ids |-> <<first.id>> \o rest.ids]

\* FilterBoolean with a fault: the empty strings are kept.
FilterBoolean_Keep(strs) == strs

\* .filter(Boolean) on strings: the empty string is dropped
RECURSIVE FilterBoolean(_)
FilterBoolean(strs) ==
  IF Len(strs) = 0 THEN <<>>
  ELSE IF Head(strs) = "" THEN FilterBoolean(Tail(strs))
  ELSE <<Head(strs)>> \o FilterBoolean(Tail(strs))

\* .join(sep)
RECURSIVE Join(_, _)
Join(strs, sep) ==
  IF Len(strs) = 0 THEN ""
  ELSE IF Len(strs) = 1 THEN Head(strs)
  ELSE Head(strs) \o sep \o Join(Tail(strs), sep)

\* The items of an Array, or the Elements of a NodeList
ItemsOf(value) ==
  IF value.t = "nodelist" THEN [i \in 1..Len(value.v) |-> Element(value.v[i])]
  ELSE value.v

\* SetAttr with a fault: the write replaces the Element's attributes.
SetAttr_Replacing(w, attribute, value) ==
  [w EXCEPT !.attrs = [k \in {"aria-" \o attribute} |-> value]]

\* #setAttr(attribute, value)
SetAttr(w, attribute, value) ==
  [w EXCEPT !.attrs = SetAttribute(@, "aria-" \o attribute, value)]

----------------------------------------------------------------------------
(* set(attribute, value): the case labels of its switch.                   *)

SetArbitraryStringNames ==
  {"keyshortcuts", "label", "placeholder", "roledescription", "valuetext"}
SetIdrefNames == {"activedescendant", "details", "errormessage"}
SetIdrefListNames == {"controls", "describedby", "flowto", "labelledby", "owns"}
SetBooleanOnlyNames ==
  {"atomic", "busy", "disabled", "modal", "multiline", "multiselectable",
   "readonly", "required"}
SetBooleanWithTokenNames ==
  {"expanded", "grabbed", "hidden", "selected", "checked", "pressed",
   "current", "haspopup", "invalid"}
SetTokenNames ==
  {"autocomplete", "dropeffect", "live", "orientation", "relevant", "sort"}
SetNumberNames ==
  {"colcount", "colindex", "colspan", "level", "posinset", "rowcount",
   "rowindex", "rowspan", "setsize", "valuemax", "valuemin", "valuenow"}

\* The string case labels of the inner switch (value) of a boolean-with-
\* tokens attribute.
SetBooleanTokens(a) ==
  CASE a \in {"expanded", "grabbed", "hidden", "selected"} -> {"undefined"}
    [] a \in {"checked", "pressed"} -> {"mixed", "undefined"}
    [] a = "current" -> {"page", "step", "location", "date", "time"}
    [] a = "haspopup" -> {"menu", "listbox", "tree", "grid", "dialog"}
    [] a = "invalid" -> {"grammar", "spelling"}
    [] OTHER -> {}

\* The case labels of the inner switch (value) of a token string attribute.
SetTokens(a) ==
  CASE a = "autocomplete" -> {"both", "inline", "list", "none"}
    [] a = "dropeffect" -> {"copy", "execute", "link", "move", "none", "popup"}
    [] a = "live" -> {"assertive", "off", "polite"}
    [] a = "orientation" -> {"horizontal", "undefined", "vertical"}
    [] a = "relevant" -> {"additions", "additions text", "all", "removals", "text"}
    [] a = "sort" -> {"ascending", "descending", "none", "other"}
    [] OTHER -> {}

\* switch (value) matches one of the string case labels
MatchesToken(value, tokens) == value.t = "string" /\ value.v \in tokens
\* case true: case false:
MatchesBoolean(value) == value.t = "boolean"

\* SetArbitraryString with a fault: the string is stored trimmed.
SetArbitraryString_Trimmed(w, a, value) ==
  IF TypeOf(value) # "string" THEN Outcome(w, Throw("InvalidValue"))
  ELSE Outcome([w EXCEPT !.attrs =
                  SetAttribute(@, "aria-" \o a, TrimEnd(TrimStart(StringOf(value))))],
               Return(This))

\* case of the arbitrary string attributes
SetArbitraryString(w, a, value) ==
  IF TypeOf(value) # "string" THEN Outcome(w, Throw("InvalidValue"))
  ELSE Outcome(SetAttr(w, a, StringOf(value)), Return(This))

\* case of the IDREF attributes
SetIdref(w, a, value) ==
  IF InstanceOfElement(value)
  THEN LET r == GetId(w, value) IN Outcome(SetAttr(r.w, a, r.id), Return(This))
  ELSE IF TypeOf(value) = "string"
  THEN Outcome(SetAttr(w, a, value.v), Return(This))
  ELSE Outcome(w, Throw("InvalidValue"))

\* SetIdrefList with a fault: a value of another type is stored as a string.
SetIdrefList_Stringify(w, a, value) ==
  IF InstanceOfElement(value)
  THEN LET r == GetId(w, value)
       IN  Outcome([r.w EXCEPT !.attrs = SetAttribute(@, "aria-" \o a, r.id)], Return(This))
  ELSE IF value.t \in {"array", "nodelist"}
  THEN LET r == MapGetId(w, ItemsOf(value))
       IN  Outcome([r.w EXCEPT !.attrs =
                      SetAttribute(@, "aria-" \o a, Join(FilterBoolean(r.ids), " "))],
                   Return(This))
  ELSE Outcome([w EXCEPT !.attrs = SetAttribute(@, "aria-" \o a, StringOf(value))],
               Return(This))

\* case of the IDREF list attributes
SetIdrefList(w, a, value) ==
  IF InstanceOfElement(value)
  THEN LET r == GetId(w, value) IN Outcome(SetAttr(r.w, a, r.id), Return(This))
  ELSE IF value.t \in {"array", "nodelist"}
  THEN LET r == MapGetId(w, ItemsOf(value))
       IN  Outcome(SetAttr(r.w, a, Join(FilterBoolean(r.ids), " ")), Return(This))
  ELSE IF TypeOf(value) = "string"
  THEN Outcome(SetAttr(w, a, value.v), Return(This))
  ELSE Outcome(w, Throw("InvalidValue"))

\* case of the boolean only attributes
SetBooleanOnly(w, a, value) ==
  IF TypeOf(value) = "undefined"
  THEN Outcome(SetAttr(w, a, StringOf(Bool(TRUE))), Return(This))
  ELSE IF MatchesBoolean(value)
  THEN Outcome(SetAttr(w, a, StringOf(value)), Return(This))
  ELSE Outcome(w, Throw("InvalidValue"))

\* SetBooleanWithTokens with a fault: an omitted value is not defaulted to true.
SetBooleanWithTokens_NoDefault(w, a, value) ==
  IF MatchesBoolean(value)
  THEN Outcome(SetAttr(w, a, StringOf(value)), Return(This))
  ELSE IF MatchesToken(value, SetBooleanTokens(a))
  THEN Outcome(SetAttr(w, a, value.v), Return(This))
  ELSE Outcome(w, Throw("InvalidValue"))

\* SetBooleanWithTokens with a fault: the strings 'true' and 'false' pass.
SetBooleanWithTokens_Strings(w, a, value) ==
  IF TypeOf(value) = "undefined"
  THEN Outcome([w EXCEPT !.attrs = SetAttribute(@, "aria-" \o a, "true")], Return(This))
  ELSE IF MatchesBoolean(value)
  THEN Outcome([w EXCEPT !.attrs = SetAttribute(@, "aria-" \o a, StringOf(value))],
               Return(This))
  ELSE IF MatchesToken(value, SetBooleanTokens(a) \cup {"true", "false"})
  THEN Outcome([w EXCEPT !.attrs = SetAttribute(@, "aria-" \o a, value.v)], Return(This))
  ELSE Outcome(w, Throw("InvalidValue"))

\* cases of the boolean attributes that also take tokens
SetBooleanWithTokens(w, a, value) ==
  IF TypeOf(value) = "undefined"
  THEN Outcome(SetAttr(w, a, StringOf(Bool(TRUE))), Return(This))
  ELSE IF MatchesBoolean(value)
  THEN Outcome(SetAttr(w, a, StringOf(value)), Return(This))
  ELSE IF MatchesToken(value, SetBooleanTokens(a))
  THEN Outcome(SetAttr(w, a, value.v), Return(This))
  ELSE Outcome(w, Throw("InvalidValue"))

\* SetToken with a fault: a token of any token string attribute passes.
SetToken_AnyAttribute(w, a, value) ==
  IF MatchesToken(value, UNION {SetTokens(b) : b \in SetTokenNames})
  THEN Outcome([w EXCEPT !.attrs = SetAttribute(@, "aria-" \o a, value.v)], Return(This))
  ELSE Outcome(w, Throw("InvalidValue"))

\* cases of the token string attributes
SetToken(w, a, value) ==
  IF MatchesToken(value, SetTokens(a))
  THEN Outcome(SetAttr(w, a, value.v), Return(This))
  ELSE Outcome(w, Throw("InvalidValue"))

\* SetNumber with a fault: the attribute is written before NaN is rejected.
SetNumber_WriteFirst(w, a, value) ==
  IF TypeOf(value) \in {"bigint", "number", "string"}
  THEN LET num == ToNumber(value)
       IN  IF IsNaN(num) THEN Outcome(SetAttr(w, a, StringOf(num)), Throw("InvalidValue"))
           ELSE Outcome(SetAttr(w, a, StringOf(num)), Return(This))
  ELSE Outcome(w, Throw("InvalidValue"))

\* SetNumber with a fault: a string is stored as it was passed.
SetNumber_Verbatim(w, a, value) ==
  IF TypeOf(value) \in {"bigint", "number", "string"}
  THEN LET num == ToNumber(value)
       IN  IF IsNaN(num) THEN Outcome(w, Throw("InvalidValue"))
           ELSE Outcome([w EXCEPT !.attrs =
                           SetAttribute(@, "aria-" \o a,
                                        IF value.t = "string" THEN value.v ELSE StringOf(num))],
                        Return(This))
  ELSE Outcome(w, Throw("InvalidValue"))

\* case of the number attributes
SetNumber(w, a, value) ==
  IF TypeOf(value) \in {"bigint", "number", "string"}
  THEN LET num == ToNumber(value)
       IN  IF IsNaN(num) THEN Outcome(w, Throw("InvalidValue"))
           ELSE Outcome(SetAttr(w, a, StringOf(num)), Return(This))
  ELSE Outcome(w, Throw("InvalidValue"))

\* Set with a fault: the name is matched as the caller spelled it.
Set_CaseSensitive(w, args) ==
  LET attribute == Arg(args, 1)
      value == Arg(args, 2)
  IN  IF Len(args) = 0 THEN Outcome(w, Throw("NoArguments"))
      ELSE IF TypeOf(attribute) # "string" THEN Outcome(w, Throw("NonStringAttribute"))
      ELSE LET a == attribute.v
           IN  CASE a \in SetArbitraryStringNames -> SetArbitraryString(w, a, value)
                 [] a \in SetIdrefNames -> SetIdref(w, a, value)
                 [] a \in SetIdrefListNames -> SetIdrefList(w, a, value)
                 [] a \in SetBooleanOnlyNames -> SetBooleanOnly(w, a, value)
                 [] a \in SetBooleanWithTokenNames -> SetBooleanWithTokens(w, a, value)
                 [] a \in SetTokenNames -> SetToken(w, a, value)
                 [] a \in SetNumberNames -> SetNumber(w, a, value)
                 [] OTHER -> Outcome(w, Throw("InvalidAttribute"))

\* Set with a fault: the id of an Element passed as value is resolved
\* before the arguments are checked.
Set_EagerId(w, args) ==
  LET attribute == Arg(args, 1)
      value == Arg(args, 2)
      r == GetId(w, value)
  IN  IF Len(args) = 0 THEN Outcome(r.w, Throw("NoArguments"))
      ELSE IF TypeOf(attribute) # "string" THEN Outcome(r.w, Throw("NonStringAttribute"))
      ELSE LET a == ToLowerCase(attribute.v)
           IN  CASE a \in SetArbitraryStringNames -> SetArbitraryString(r.w, a, value)
                 [] a \in SetIdrefNames -> SetIdref(r.w, a, value)
                 [] a \in SetIdrefListNames -> SetIdrefList(r.w, a, value)
                 [] a \in SetBooleanOnlyNames -> SetBooleanOnly(r.w, a, value)
                 [] a \in SetBooleanWithTokenNames -> SetBooleanWithTokens(r.w, a, value)
                 [] a \in SetTokenNames -> SetToken(r.w, a, value)
                 [] a \in SetNumberNames -> SetNumber(r.w, a, value)
                 [] OTHER -> Outcome(r.w, Throw("InvalidAttribute"))

\* set(attribute, value) called with the arguments args in the world w
Set(w, args) ==
  LET attribute == Arg(args, 1)
      value == Arg(args, 2)
  IN  IF Len(args) = 0 THEN Outcome(w, Throw("NoArguments"))
      ELSE IF TypeOf(attribute) # "string" THEN Outcome(w, Throw("NonStringAttribute"))
      ELSE LET a == ToLowerCase(attribute.v)
           IN  CASE a \in SetArbitraryStringNames -> SetArbitraryString(w, a, value)
                 [] a \in SetIdrefNames -> SetIdref(w, a, value)
                 [] a \in SetIdrefListNames -> SetIdrefList(w, a, value)
                 [] a \in SetBooleanOnlyNames -> SetBooleanOnly(w, a, value)
                 [] a \in SetBooleanWithTokenNames -> SetBooleanWithTokens(w, a, value)
                 [] a \in SetTokenNames -> SetToken(w, a, value)
                 [] a \in SetNumberNames -> SetNumber(w, a, value)
                 [] OTHER -> Outcome(w, Throw("InvalidAttribute"))

----------------------------------------------------------------------------
(* unset(attribute)                                                        *)

\* UnsetNames with a fault: the number attributes have no case label.
UnsetNames_NoNumbers ==
  SetArbitraryStringNames \cup SetIdrefNames \cup SetIdrefListNames
    \cup SetBooleanOnlyNames \cup SetBooleanWithTokenNames \cup SetTokenNames

UnsetNames ==
  {"keyshortcuts", "label", "placeholder", "roledescription", "valuetext",
   "activedescendant", "details", "errormessage",
   "controls", "describedby", "flowto", "labelledby", "owns",
   "atomic", "busy", "disabled", "modal", "multiline", "multiselectable",
   "readonly", "required",
   "expanded", "grabbed", "hidden", "selected", "checked", "current",
   "haspopup", "invalid", "pressed",
   "autocomplete", "dropeffect", "live", "orientation", "relevant", "sort",
   "colcount", "colindex", "colspan", "level", "posinset", "rowcount",
   "rowindex", "rowspan", "setsize", "valuemax", "valuemin", "valuenow"}

\* Unset with a fault: the name is not checked against the case labels.
Unset_Unchecked(w, args) ==
  LET attribute == Arg(args, 1)
  IN  IF Len(args) = 0 THEN Outcome(w, Throw("NoArguments"))
      ELSE IF TypeOf(attribute) # "string" THEN Outcome(w, Throw("NonStringAttribute"))
      ELSE Outcome([w EXCEPT !.attrs = RemoveAttribute(@, "aria-" \o ToLowerCase(attribute.v))],
                   Return(This))

Unset(w, args) ==
  LET attribute == Arg(args, 1)
  IN  IF Len(args) = 0 THEN Outcome(w, Throw("NoArguments"))
      ELSE IF TypeOf(attribute) # "string" THEN Outcome(w, Throw("NonStringAttribute"))
      ELSE LET a == ToLowerCase(attribute.v)
           IN  IF a \in UnsetNames
               THEN Outcome([w EXCEPT !.attrs = RemoveAttribute(@, "aria-" \o a)],
                            Return(This))
               ELSE Outcome(w, Throw("InvalidAttribute"))

----------------------------------------------------------------------------
(* get(attribute)                                                          *)

GetVerbatimNames ==
  {"activedescendant", "controls", "describedby", "details", "errormessage",
   "flowto", "keyshortcuts", "label", "labelledby", "owns", "placeholder",
   "roledescription", "valuetext"}
GetTokenNames ==
  {"autocomplete", "dropeffect", "live", "orientation", "relevant", "sort"}
GetBooleanWithTokenNames ==
  {"expanded", "grabbed", "hidden", "selected", "checked", "pressed",
   "current", "haspopup", "invalid"}
GetBooleanOnlyNames ==
  {"atomic", "busy", "disabled", "modal", "multiline", "multiselectable",
   "readonly", "required"}
GetNumberNames ==
  {"colcount", "colindex", "colspan", "level", "posinset", "rowcount",
   "rowindex", "rowspan", "setsize", "valuemax", "valuemin", "valuenow"}

\* GetTokens with a fault: the label 'additions text' is missing.
GetTokens_Missing(a) ==
  CASE a = "autocomplete" -> {"both", "inline", "list", "none"}
    [] a = "dropeffect" -> {"copy", "execute", "link", "move", "none", "popup"}
    [] a = "live" -> {"assertive", "off", "polite"}
    [] a = "orientation" -> {"horizontal", "undefined", "vertical"}
    [] a = "relevant" -> {"additions", "all", "removals", "text"}
    [] a = "sort" -> {"ascending", "descending", "none", "other"}
    [] OTHER -> {}

\* The case labels of the inner switch (value) of a token string attribute.
GetTokens(a) ==
  CASE a = "autocomplete" -> {"both", "inline", "list", "none"}
    [] a = "dropeffect" -> {"copy", "execute", "link", "move", "none", "popup"}
    [] a = "live" -> {"assertive", "off", "polite"}
    [] a = "orientation" -> {"horizontal", "undefined", "vertical"}
    [] a = "relevant" -> {"additions", "additions text", "all", "removals", "text"}
    [] a = "sort" -> {"ascending", "descending", "none", "other"}
    [] OTHER -> {}

\* GetBooleanTokens with a fault: the label 'undefined' is missing.
GetBooleanTokens_NoUndefined(a) ==
  CASE a \in {"expanded", "grabbed", "hidden", "selected"} -> {}
    [] a \in {"checked", "pressed"} -> {"mixed"}
    [] a = "current" -> {"page", "step", "location", "date", "time"}
    [] a = "haspopup" -> {"menu", "listbox", "tree", "grid", "dialog"}
    [] a = "invalid" -> {"grammar", "spelling"}
    [] OTHER -> {}

\* The string case labels, other than 'true' and 'false', of the inner
\* switch (value) of a boolean-with-tokens attribute.
GetBooleanTokens(a) ==
  CASE a \in {"expanded", "grabbed", "hidden", "selected"} -> {"undefined"}
    [] a \in {"checked", "pressed"} -> {"mixed", "undefined"}
    [] a = "current" -> {"page", "step", "location", "date", "time"}
    [] a = "haspopup" -> {"menu", "listbox", "tree", "grid", "dialog"}
    [] a = "invalid" -> {"grammar", "spelling"}
    [] OTHER -> {}

\* GetToken with a fault: a token of any token string attribute is returned.
GetToken_AnyAttribute(a, value) ==
  IF MatchesToken(value, UNION {GetTokens(b) : b \in GetTokenNames})
  THEN Return(value) ELSE Return(Null)

\* cases of the token string attributes: a matching label returns the value,
\* anything else breaks to the final return null
GetToken(a, value) ==
  IF MatchesToken(value, GetTokens(a)) THEN Return(value) ELSE Return(Null)

\* GetBoolean with a fault: the raw string is returned, not the boolean.
GetBoolean_Raw(value) ==
  IF MatchesToken(value, {"true", "false"}) THEN Return(value) ELSE Return(Null)

\* case 'true': return true; case 'false': return false;
GetBoolean(value) ==
  IF StrictEquals(value, Str("true")) THEN Return(Bool(TRUE))
  ELSE IF StrictEquals(value, Str("false")) THEN Return(Bool(FALSE))
  ELSE Return(Null)

\* cases of the boolean attributes that also take tokens
GetBooleanWithTokens(a, value) ==
  IF MatchesToken(value, {"true", "false"}) THEN GetBoolean(value)
  ELSE IF MatchesToken(value, GetBooleanTokens(a)) THEN Return(value)
  ELSE Return(Null)

\* GetNumber with a fault: white space around the number is not tolerated.
GetNumber_NoTrim(value) ==
  LET num == ToNumber(value)
  IN  IF value.t = "string" /\ TrimEnd(TrimStart(value.v)) # value.v THEN Return(Null)
      ELSE IF ~IsNaN(num) THEN Return(num) ELSE Return(Null)

\* case of the number attributes
GetNumber(value) ==
  LET num == ToNumber(value)
  IN  IF ~IsNaN(num) THEN Return(num) ELSE Return(Null)

\* Get with a fault: an attribute read as null is removed from the Element.
Get_Repairing(w, args) ==
  LET attribute == Arg(args, 1)
  IN  IF Len(args) = 0 THEN Outcome(w, Throw("NoArguments"))
      ELSE IF TypeOf(attribute) # "string" THEN Outcome(w, Throw("NonStringAttribute"))
      ELSE LET a == ToLowerCase(attribute.v)
               value == GetAttribute(w.attrs, "aria-" \o a)
               r == CASE a \in GetVerbatimNames -> Return(value)
                      [] a \in GetTokenNames -> GetToken(a, value)
                      [] a \in GetBooleanWithTokenNames -> GetBooleanWithTokens(a, value)
                      [] a \in GetBooleanOnlyNames -> GetBoolean(value)
                      [] a \in GetNumberNames -> GetNumber(value)
                      [] OTHER -> Throw("InvalidAttribute")
           IN  IF r = Return(Null)
               THEN Outcome([w EXCEPT !.attrs = RemoveAttribute(@, "aria-" \o a)], r)
               ELSE Outcome(w, r)

\* get(attribute) called with the arguments args in the world w
Get(w, args) ==
  LET attribute == Arg(args, 1)
  IN  IF Len(args) = 0 THEN Outcome(w, Throw("NoArguments"))
      ELSE IF TypeOf(attribute) # "string" THEN Outcome(w, Throw("NonStringAttribute"))
      ELSE LET a == ToLowerCase(attribute.v)
               value == GetAttribute(w.attrs, "aria-" \o a)
           IN  CASE a \in GetVerbatimNames -> Outcome(w, Return(value))
                 [] a \in GetTokenNames -> Outcome(w, GetToken(a, value))
                 [] a \in GetBooleanWithTokenNames ->
                      Outcome(w, GetBooleanWithTokens(a, value))
                 [] a \in GetBooleanOnlyNames -> Outcome(w, GetBoolean(value))
                 [] a \in GetNumberNames -> Outcome(w, GetNumber(value))
                 [] OTHER -> Outcome(w, Throw("InvalidAttribute"))

----------------------------------------------------------------------------
(* Convenience methods: the boolean methods and the toggling setters.      *)

\* GetIsTrue with a fault: any value other than null and false counts.
GetIsTrue_Truthy(w, name) ==
  LET o == Get(w, <<Str(name)>>)
  IN  IF o.ret.kind = "throw" THEN o
      ELSE Outcome(o.w, Return(Bool(o.ret.value \notin {Null, Bool(FALSE)})))

\* this.get(name) === true
GetIsTrue(w, name) ==
  LET o == Get(w, <<Str(name)>>)
  IN  IF o.ret.kind = "throw" THEN o
      ELSE Outcome(o.w, Return(Bool(StrictEquals(o.ret.value, Bool(TRUE)))))

\* isAtomic(): return this.get('atomic') === true
IsAtomic(w) == GetIsTrue(w, "atomic")
\* isBusy(): return this.get('busy') === true
IsBusy(w) == GetIsTrue(w, "busy")
\* isChecked(): return this.get('checked') === true
IsChecked(w) == GetIsTrue(w, "checked")
\* isDisabled(): return this.get('disabled') === true
IsDisabled(w) == GetIsTrue(w, "disabled")
\* isExpanded(): return this.get('expanded') === true
IsExpanded(w) == GetIsTrue(w, "expanded")
\* isGrabbed(): return this.get('grabbed') === true
IsGrabbed(w) == GetIsTrue(w, "grabbed")
\* isHidden(): return this.get('hidden') === true
IsHidden(w) == GetIsTrue(w, "hidden")
\* isModal(): return this.get('modal') === true
IsModal(w) == GetIsTrue(w, "modal")
\* isMultiline(): return this.get('multiline') === true
IsMultiline(w) == GetIsTrue(w, "multiline")
\* isMultiselectable(): return this.get('multiselectable') === true
IsMultiselectable(w) == GetIsTrue(w, "multiselectable")
\* isPressed(): return this.get('pressed') === true
IsPressed(w) == GetIsTrue(w, "pressed")
\* isReadonly(): return this.get('readonly') === true
IsReadonly(w) == GetIsTrue(w, "readonly")
\* isRequired(): return this.get('required') === true
IsRequired(w) == GetIsTrue(w, "required")
\* isSelected(): return this.get('selected') === true
IsSelected(w) == GetIsTrue(w, "selected")

\* SetNegated with a fault: the state is set as it is, not negated.
SetNegated_Same(w, name, is) ==
  IF is.ret.kind = "throw" THEN is
  ELSE Set(is.w, <<Str(name), Bool(is.ret.value.v)>>)

\* this.set(name, !is), is being the outcome of the boolean method
SetNegated(w, name, is) ==
  IF is.ret.kind = "throw" THEN is
  ELSE Set(is.w, <<Str(name), Bool(~is.ret.value.v)>>)

\* toggleChecked(): return this.set('checked', !this.isChecked())
ToggleChecked(w) == SetNegated(w, "checked", IsChecked(w))
\* toggleDisabled(): return this.set('disabled', !this.isDisabled())
ToggleDisabled(w) == SetNegated(w, "disabled", IsDisabled(w))
\* toggleExpanded(): return this.set('expanded', !this.isExpanded())
ToggleExpanded(w) == SetNegated(w, "expanded", IsExpanded(w))
\* toggleGrabbed(): return this.set('grabbed', !this.isGrabbed())
ToggleGrabbed(w) == SetNegated(w, "grabbed", IsGrabbed(w))
\* toggleHidden(): return this.set('hidden', !this.isHidden())
ToggleHidden(w) == SetNegated(w, "hidden", IsHidden(w))
\* togglePressed(): return this.set('pressed', !this.isPressed())
TogglePressed(w) == SetNegated(w, "pressed", IsPressed(w))
\* toggleRequired(): return this.set('required', !this.isRequired())
ToggleRequired(w) == SetNegated(w, "required", IsRequired(w))
\* toggleSelected(): return this.set('selected', !this.isSelected())
ToggleSelected(w) == SetNegated(w, "selected", IsSelected(w))

\* The setters that take no value: check() is this.set('checked'),
\* uncheck() is this.set('checked', false).
SetToTrueMethods ==
  {"check", "disable", "expand", "grab", "hide", "press", "require", "select"}
SetToFalseMethods ==
  {"uncheck", "enable", "collapse", "ungrab", "unhide", "unpress", "unrequire",
   "unselect"}
\* The setters that pass their value on: control(value) is
\* this.set('controls', value).
ValueSetterMethods ==
  {"control", "describeWith", "flowTo", "label", "labelWith", "own", "describeRole"}
SetterMethods == SetToTrueMethods \cup SetToFalseMethods \cup ValueSetterMethods

\* The attribute a setter sets.
SetterAttribute(m) ==
  CASE m \in {"check", "uncheck"} -> "checked"
    [] m \in {"disable", "enable"} -> "disabled"
    [] m \in {"expand", "collapse"} -> "expanded"
    [] m \in {"grab", "ungrab"} -> "grabbed"
    [] m \in {"hide", "unhide"} -> "hidden"
    [] m \in {"press", "unpress"} -> "pressed"
    [] m \in {"require", "unrequire"} -> "required"
    [] m \in {"select", "unselect"} -> "selected"
    [] m = "control" -> "controls"
    [] m = "describeWith" -> "describedby"
    [] m = "flowTo" -> "flowto"
    [] m = "label" -> "label"
    [] m = "labelWith" -> "labelledby"
    [] m = "own" -> "owns"
    [] m = "describeRole" -> "roledescription"

\* The arguments with which the setter m, called with args, calls set.
SetterArguments(m, args) ==
  IF m \in SetToTrueMethods THEN <<Str(SetterAttribute(m))>>
  ELSE IF m \in SetToFalseMethods THEN <<Str(SetterAttribute(m)), Bool(FALSE)>>
  ELSE <<Str(SetterAttribute(m)), Arg(args, 1)>>

\* The setter m called with args in the world w.
CallSetter(w, m, args) == Set(w, SetterArguments(m, args))

BooleanMethods ==
  {"isAtomic", "isBusy", "isChecked", "isDisabled",
   "isExpanded", "isGrabbed", "isHidden", "isModal",
   "isMultiline", "isMultiselectable", "isPressed", "isReadonly",
   "isRequired", "isSelected"}
ToggleMethods ==
  {"toggleChecked", "toggleDisabled", "toggleExpanded", "toggleGrabbed",
   "toggleHidden", "togglePressed", "toggleRequired", "toggleSelected"}

\* The method m called without arguments in the world w.
CallMethod(w, m) ==
  CASE m = "isAtomic" -> IsAtomic(w)
    [] m = "isBusy" -> IsBusy(w)
    [] m = "isChecked" -> IsChecked(w)
    [] m = "isDisabled" -> IsDisabled(w)
    [] m = "isExpanded" -> IsExpanded(w)
    [] m = "isGrabbed" -> IsGrabbed(w)
    [] m = "isHidden" -> IsHidden(w)
    [] m = "isModal" -> IsModal(w)
    [] m = "isMultiline" -> IsMultiline(w)
    [] m = "isMultiselectable" -> IsMultiselectable(w)
    [] m = "isPressed" -> IsPressed(w)
    [] m = "isReadonly" -> IsReadonly(w)
    [] m = "isRequired" -> IsRequired(w)
    [] m = "isSelected" -> IsSelected(w)
    [] m = "toggleChecked" -> ToggleChecked(w)
    [] m = "toggleDisabled" -> ToggleDisabled(w)
    [] m = "toggleExpanded" -> ToggleExpanded(w)
    [] m = "toggleGrabbed" -> ToggleGrabbed(w)
    [] m = "toggleHidden" -> ToggleHidden(w)
    [] m = "togglePressed" -> TogglePressed(w)
    [] m = "toggleRequired" -> ToggleRequired(w)
    [] m = "toggleSelected" -> ToggleSelected(w)

\* The attribute the README's tables (and the method's name) give a method.
MethodAttribute(m) ==
  CASE m = "isAtomic" -> "atomic"
    [] m = "isBusy" -> "busy"
    [] m = "isChecked" -> "checked"
    [] m = "isDisabled" -> "disabled"
    [] m = "isExpanded" -> "expanded"
    [] m = "isGrabbed" -> "grabbed"
    [] m = "isHidden" -> "hidden"
    [] m = "isModal" -> "modal"
    [] m = "isMultiline" -> "multiline"
    [] m = "isMultiselectable" -> "multiselectable"
    [] m = "isPressed" -> "pressed"
    [] m = "isReadonly" -> "readonly"
    [] m = "isRequired" -> "required"
    [] m = "isSelected" -> "selected"
    [] m = "toggleChecked" -> "checked"
    [] m = "toggleDisabled" -> "disabled"
    [] m = "toggleExpanded" -> "expanded"
    [] m = "toggleGrabbed" -> "grabbed"
    [] m = "toggleHidden" -> "hidden"
    [] m = "togglePressed" -> "pressed"
    [] m = "toggleRequired" -> "required"
    [] m = "toggleSelected" -> "selected"

\* if (value): the truthiness of a value
ToBoolean(x) ==
  CASE x.t \in {"undefined", "null", "nan"} -> FALSE
    [] x.t = "boolean" -> x.v
    [] x.t = "string" -> x.v # ""
    [] x.t \in {"number", "bigint"} -> x.v # 0
    [] OTHER -> TRUE

\* IsValueOrAny with a fault: without a value, false counts as a value too.
IsValueOrAny_FalseCounts(w, name, tokens, value) ==
  LET o == Get(w, <<Str(name)>>)
  IN  IF o.ret.kind = "throw" THEN o
      ELSE IF ToBoolean(value)
      THEN Outcome(o.w, Return(Bool(StrictEquals(o.ret.value, value))))
      ELSE Outcome(o.w, Return(Bool(\/ o.ret.value.t = "boolean"
                                    \/ MatchesToken(o.ret.value, tokens))))

\* The body of isCurrent, hasPopup and isInvalid: with a truthy value,
\* currentValue === value; without, currentValue === true or one of tokens.
IsValueOrAny(w, name, tokens, value) ==
  LET o == Get(w, <<Str(name)>>)
  IN  IF o.ret.kind = "throw" THEN o
      ELSE IF ToBoolean(value)
      THEN Outcome(o.w, Return(Bool(StrictEquals(o.ret.value, value))))
      ELSE Outcome(o.w, Return(Bool(\/ StrictEquals(o.ret.value, Bool(TRUE))
                                    \/ MatchesToken(o.ret.value, tokens))))

\* isCurrent(value?)
IsCurrent(w, args) ==
  IsValueOrAny(w, "current", {"page", "step", "location", "date", "time"}, Arg(args, 1))
\* hasPopup(value?)
HasPopup(w, args) ==
  IsValueOrAny(w, "haspopup", {"menu", "listbox", "tree", "grid", "dialog"}, Arg(args, 1))
\* isInvalid(value?)
IsInvalid(w, args) ==
  IsValueOrAny(w, "invalid", {"grammar", "spelling"}, Arg(args, 1))

TokenMethods == {"isCurrent", "hasPopup", "isInvalid"}

\* The method m called with the arguments args in the world w.
CallTokenMethod(w, m, args) ==
  CASE m = "isCurrent" -> IsCurrent(w, args)
    [] m = "hasPopup" -> HasPopup(w, args)
    [] m = "isInvalid" -> IsInvalid(w, args)

\* The attribute the README's table gives a boolean method with a value.
TokenMethodAttribute(m) ==
  CASE m = "isCurrent" -> "current"
    [] m = "hasPopup" -> "haspopup"
    [] m = "isInvalid" -> "invalid"

----------------------------------------------------------------------------
(* The declared vocabulary: interface AriaAttributes of the types file.    *)

AriaAttributeNames ==
  {"activedescendant", "atomic", "autocomplete", "busy", "checked",
   "colcount", "colindex", "colspan", "controls", "current", "describedby",
   "details", "disabled", "dropeffect", "errormessage", "expanded", "flowto",
   "grabbed", "haspopup", "hidden", "invalid", "keyshortcuts", "label",
   "labelledby", "level", "live", "modal", "multiline", "multiselectable",
   "orientation", "owns", "placeholder", "posinset", "pressed", "readonly",
   "relevant", "required", "roledescription", "rowcount", "rowindex",
   "rowspan", "selected", "setsize", "sort", "valuemax", "valuemin",
   "valuenow", "valuetext"}

\* The string literal types in the declared type of an attribute.
AriaAttributeTokens(name) ==
  CASE name = "autocomplete" -> {"inline", "list", "both", "none"}
    [] name \in {"checked", "pressed"} -> {"mixed", "undefined"}
    [] name = "current" -> {"page", "step", "location", "date", "time"}
    [] name = "dropeffect" -> {"copy", "execute", "link", "move", "none", "popup"}
    [] name \in {"expanded", "grabbed", "hidden", "selected"} -> {"undefined"}
    [] name = "haspopup" -> {"menu", "listbox", "tree", "grid", "dialog"}
    [] name = "invalid" -> {"grammar", "spelling"}
    [] name = "live" -> {"assertive", "off", "polite"}
    [] name = "orientation" -> {"horizontal", "undefined", "vertical"}
    [] name = "relevant" -> {"additions", "additions text", "all", "removals", "text"}
    [] name = "sort" -> {"ascending", "descending", "none", "other"}
    [] OTHER -> {}

\* The families the types file derives from the declared types.
IDREFAttributes == {"activedescendant", "details", "errormessage"}
IDREFListAttributes == {"controls", "describedby", "flowto", "labelledby", "owns"}
BooleanOnlyAttributes ==
  {"atomic", "busy", "disabled", "modal", "multiline", "multiselectable",
   "readonly", "required"}
BooleanWithTokenAttributes ==
  {"checked", "current", "expanded", "grabbed", "haspopup", "hidden",
   "invalid", "pressed", "selected"}
BooleanSupportedAttributes == BooleanOnlyAttributes \cup BooleanWithTokenAttributes
ArbitraryStringAttributes ==
  {"keyshortcuts", "label", "placeholder", "roledescription", "valuetext"}
TokenStringAttributes ==
  {"autocomplete", "dropeffect", "live", "orientation", "relevant", "sort"}
NumberAttributes ==
  {"colcount", "colindex", "colspan", "level", "posinset", "rowcount",
   "rowindex", "rowspan", "setsize", "valuemax", "valuemin", "valuenow"}

----------------------------------------------------------------------------
(* The inputs of the calls.                                                *)

\* Strings every run offers: booleans as strings, malformed spellings, a
\* few tokens, an ID, and number literals.
BaseStrings ==
  {"true", "false", "TRUE", " true", "", "undefined", "none", "polite",
   "id-x", "007", " 59 ", "one"}

\* The declared tokens of an attribute in another letter case.
CasedTokens(name) == {ToUpperCase(t) : t \in AriaAttributeTokens(name)}

StringInputs(name) ==
  BaseStrings \cup AriaAttributeTokens(name) \cup CasedTokens(name)
    \cup (IF name \in NumberAttributes THEN {"\f5\f"} ELSE {})

\* Items of an Array: Elements, and null as the item that is no Element.
ArrayItems == {Element(n) : n \in Nodes} \cup {Null}
ArrayInputs == {Array(items) : items \in UNION {[1..k -> ArrayItems] : k \in 0..MaxListLen}}

\* Arrays with items of other types among or instead of the Elements.
MixedArrayInputs ==
  {Array(<<Str("id-x"), Element(NumNodes)>>),
   Array(<<Element(NumNodes), Num(8)>>),
   Array(<<Obj, Undefined>>)}

\* A NodeList holds distinct nodes in document order.
NodeListInputs ==
  {NodeList(nodes) : nodes \in
     {q \in UNION {[1..k -> Nodes] : k \in 0..MaxListLen} :
        \A i \in 1..Len(q), j \in 1..Len(q) : i < j => q[i] < q[j]}}

\* Handles and collections of handles; an attribute that takes no
\* collection is offered one Array and one NodeList.
HandleInputs(name) ==
  IF name \in IDREFListAttributes
  THEN {Element(n) : n \in Nodes} \cup ArrayInputs \cup MixedArrayInputs
         \cup NodeListInputs
  ELSE IF name \in IDREFAttributes
  THEN {Element(n) : n \in Nodes} \cup {Array(<<Element(NumNodes)>>), NodeList(<<NumNodes>>)}
  ELSE {Element(El), Array(<<>>)}

NumberInputs == {Num(0), Num(8), Num(32), Num(0 - 5), NaN, BigInt(1)}

\* The values passed as second argument.
ValueInputs(name) ==
  {Undefined, Null, Bool(TRUE), Bool(FALSE), Obj, Func}
    \cup NumberInputs
    \cup {Str(s) : s \in StringInputs(name)}
    \cup HandleInputs(name)

\* Spellings of a recognized name.
Spellings(name) == {name, ToUpperCase(name)}

\* First arguments that are no recognized name.
InvalidAttributeInputs(name) ==
  {Str(""), Str("sth"), Str("aria-" \o name), Num(8), Null, Undefined}

AttributeInputs(name) ==
  {Str(x) : x \in Spellings(name)} \cup InvalidAttributeInputs(name)

\* The values passed with the upper-case spelling of the name.
SpelledValueInputs(name) ==
  {Null, Bool(TRUE), Bool(FALSE), Num(32), Element(NumNodes)}
    \cup {Str(s) : s \in StringInputs(name)}

SetArgs(name) ==
  {<<>>}
    \cup {<<a>> : a \in AttributeInputs(name)}
    \cup {<<Str(name), v>> : v \in ValueInputs(name)}
    \cup {<<Str(ToUpperCase(name)), v>> : v \in SpelledValueInputs(name)}
    \cup {<<a, v>> : a \in InvalidAttributeInputs(name),
                     v \in {Bool(TRUE), Element(NumNodes)}}

\* Another attribute, set on the same Element earlier in a chain of calls.
Companion(name) == IF name = "label" THEN "valuetext" ELSE "label"
CompanionValue == "click me"

\* The convenience methods of an attribute.
MethodsOf(name) ==
  {m \in BooleanMethods \cup ToggleMethods : MethodAttribute(m) = name}

\* The boolean methods of an attribute that take a value, and their
\* arguments: none, the empty string, or a declared token.
TokenMethodsOf(name) == {m \in TokenMethods : TokenMethodAttribute(m) = name}
TokenMethodArgs(name) ==
  {<<>>, <<Str("")>>} \cup {<<Str(t)>> : t \in AriaAttributeTokens(name)}

\* The setters of an attribute and the arguments they are called with.
SettersOf(name) == {m \in SetterMethods : SetterAttribute(m) = name}
SetterValueInputs ==
  {Str("id-x"), Str(""), Null, Num(8), Element(El), Element(NumNodes),
   Array(<<Element(NumNodes), Null>>), NodeList(<<NumNodes>>)}
SetterArgs(m) ==
  IF m \in ValueSetterMethods THEN {<<>>} \cup {<<v>> : v \in SetterValueInputs}
  ELSE {<<>>}

GetArgs(name) == {<<>>} \cup {<<a>> : a \in AttributeInputs(name)}

UnsetArgs(name) == {<<>>} \cup {<<a>> : a \in AttributeInputs(name)}

----------------------------------------------------------------------------
(* The state machine: calls on wrappers of the Element El.                 *)

\* The key of an un-prefixed attribute name in the Element's attributes.
Key(name) == "aria-" \o name

World == [attrs |-> attrs, ids |-> ids, idCounter |-> idCounter]

\* No call is pending: the caller is between two calls.
NoCall == [op |-> "none", args |-> <<>>]
Idle == call.op = "none"

\* The document before any call: the wrapped Element carries an id, the
\* other nodes none; no aria-* attribute is present.
InitialIds == [n \in Nodes |-> IF n = El THEN "btn" ELSE ""]

Init ==
  /\ subject \in AriaAttributeNames
  /\ attrs = NoAttributes
  /\ ids = InitialIds
  /\ idCounter = 1
  /\ call = NoCall
  /\ ret = Return(Undefined)

\* The effect of a method call on the state.
Becomes(op, args, o) ==
  /\ attrs' = o.w.attrs
  /\ ids' = o.w.ids
  /\ idCounter' = o.w.idCounter
  /\ call' = [op |-> op, args |-> args]
  /\ ret' = o.ret
  /\ UNCHANGED subject

SetCall ==
  /\ Idle
  /\ \E args \in SetArgs(subject) : Becomes("set", args, Set(World, args))

GetCall ==
  /\ Idle
  /\ \E args \in GetArgs(subject) : Becomes("get", args, Get(World, args))

UnsetCall ==
  /\ Idle
  /\ \E args \in UnsetArgs(subject) : Becomes("unset", args, Unset(World, args))

\* A set of another attribute, before the one under test is touched:
\* aria(el).set('label', 'click me')
SetCompanionCall ==
  /\ Idle
  /\ Key(Companion(subject)) \notin DOMAIN attrs
  /\ LET args == <<Str(Companion(subject)), Str(CompanionValue)>>
     IN  Becomes("set", args, Set(World, args))

\* A boolean method or a toggling setter, called without arguments.
MethodCall ==
  /\ Idle
  /\ \E m \in MethodsOf(subject) : Becomes(m, <<>>, CallMethod(World, m))

\* A convenience setter: check(), uncheck(), control(value), ...
SetterCall ==
  /\ Idle
  /\ \E m \in SettersOf(subject) :
       \E args \in SetterArgs(m) : Becomes(m, args, CallSetter(World, m, args))

\* isCurrent, hasPopup or isInvalid, called with or without a value.
TokenMethodCall ==
  /\ Idle
  /\ \E m \in TokenMethodsOf(subject), args \in TokenMethodArgs(subject) :
       Becomes(m, args, CallTokenMethod(World, m, args))

\* The attribute is written outside the class (markup, other code):
\* el.setAttribute('aria-...', raw)
SetAttributeCall ==
  /\ Idle
  /\ \E raw \in StringInputs(subject) :
       LET name == "aria-" \o subject
       IN  /\ attrs' = SetAttribute(attrs, name, raw)
           /\ call' = [op |-> "setAttribute", args |-> <<Str(name), Str(raw)>>]
           /\ ret' = Return(Undefined)
           /\ UNCHANGED <<subject, ids, idCounter>>

\* The caller has the outcome of its call and goes on to the next one.
Resume ==
  /\ ~Idle
  /\ call' = NoCall
  /\ ret' = Return(Undefined)
  /\ UNCHANGED <<subject, attrs, ids, idCounter>>

Next ==
  \/ SetCall
  \/ GetCall
  \/ UnsetCall
  \/ SetCompanionCall
  \/ MethodCall
  \/ SetterCall
  \/ TokenMethodCall
  \/ SetAttributeCall
  \/ Resume

Spec == Init /\ [][Next]_vars

\* The Element's attributes are written through set and unset only.
NextNoRaw ==
  \/ SetCall
  \/ GetCall
  \/ UnsetCall
  \/ SetCompanionCall
  \/ Resume

SpecNoRaw == Init /\ [][NextNoRaw]_vars

\* A document whose markup already uses an id of the generated form on a
\* node other than the wrapped Element: <li id="easy-aria-id-1">
PresetIds ==
  [n \in Nodes |-> IF n = El THEN "btn"
                   ELSE IF n = NumNodes THEN IdPrefix \o "1" ELSE ""]

\* Calls on a reference attribute of an Element of that document.
InitPreset ==
  /\ subject \in IDREFAttributes \cup IDREFListAttributes
  /\ attrs = NoAttributes
  /\ ids = PresetIds
  /\ idCounter = 1
  /\ call = NoCall
  /\ ret = Return(Undefined)

NextPreset ==
  \/ SetCall
  \/ GetCall
  \/ UnsetCall
  \/ SetCompanionCall
  \/ SetAttributeCall
  \/ Resume

SpecPreset == InitPreset /\ [][NextPreset]_vars

----------------------------------------------------------------------------
(* Vocabulary of the properties.                                           *)

\* The first argument of the call c, lowercased ("" when it is no string).
NameOf(c) ==
  IF Len(c.args) >= 1 /\ c.args[1].t = "string"
  THEN ToLowerCase(c.args[1].v) ELSE ""

\* The call c is op on a name of names, given as a string.
IsCall(c, op, names) ==
  /\ c.op = op
  /\ Len(c.args) >= 1
  /\ c.args[1].t = "string"
  /\ NameOf(c) \in names

\* The call of set that the call c makes: c itself, or for a convenience
\* setter the set it passes its value to.
AsSet(c) ==
  IF c.op \in SetterMethods
  THEN [op |-> "set", args |-> SetterArguments(c.op, c.args)]
  ELSE c

\* The last call's name and second argument.
CallName == NameOf(call)
CallValue == Arg(call.args, 2)

\* The last call is op on a name of names.
CallOn(op, names) == IsCall(call, op, names)

\* The last call returned (did not throw).
Returned == ret.kind = "return"

\* get(name) made now, in the current state.
GetNow(name) == Get(World, <<Str(name)>>).ret

\* The ids, in order, of the Elements among the items of a collection.
RECURSIVE IdsOfElements(_)
IdsOfElements(items) ==
  IF Len(items) = 0 THEN <<>>
  ELSE IF Head(items).t = "element"
  THEN <<ids[Head(items).v]>> \o IdsOfElements(Tail(items))
  ELSE IdsOfElements(Tail(items))

----------------------------------------------------------------------------
(* C1: round trip.  After set(name, v) has accepted v, get(name) returns   *)
(* v's canonical form: the same string, boolean or token, the parsed       *)
(* number for a number attribute, the id of a node handle (the ids, space  *)
(* joined, of a collection of handles), and true for an omitted value.     *)

CanonicalForm(name, v) ==
  CASE name \in NumberAttributes -> ToNumber(v)
    [] v.t = "undefined" -> Bool(TRUE)
    [] v.t = "element" -> Str(ids[v.v])
    [] v.t \in {"array", "nodelist"} -> Str(Join(IdsOfElements(ItemsOf(v)), " "))
    [] OTHER -> v

C1_RoundTrip ==
  (CallOn("set", AriaAttributeNames) /\ Returned)
    => GetNow(CallName) = Return(CanonicalForm(CallName, CallValue))

\* set('colcount', '007') was accepted and get('colcount') is the number 7.
C1_Witness ==
  /\ call = [op |-> "set", args |-> <<Str("colcount"), Str("007")>>]
  /\ Returned
  /\ attrs[Key("colcount")] = "7"
  /\ GetNow("colcount") = Return(Num(7))

----------------------------------------------------------------------------
(* C2: get(name) returns null when aria-<name> is absent, for every        *)
(* recognized name of every domain.                                        *)

C2_AbsentIsNull ==
  (CallOn("get", AriaAttributeNames) /\ Key(CallName) \notin DOMAIN attrs)
    => ret = Return(Null)

----------------------------------------------------------------------------
(* C3: idempotent unset.  After unset(name), get(name) returns null, and   *)
(* a second unset(name) leaves the state as the first left it, without     *)
(* error.                                                                  *)

C3_UnsetThenGetIsNull ==
  (CallOn("unset", AriaAttributeNames))
    => /\ Returned
       /\ GetNow(CallName) = Return(Null)
       /\ Unset(World, call.args) = Outcome(World, Return(This))

----------------------------------------------------------------------------
(* C4: for an IDREF or IDREF list attribute, set(name, null) and set(name) *)
(* without a value are no-ops: no error, the instance is returned, and     *)
(* the attributes, the ids and the ID counter stay as they were.           *)

NullOrAbsent(v) == v.t \in {"null", "undefined"}

C4_NullIsNoOp ==
  [][(/\ IsCall(call', "set", IDREFAttributes \cup IDREFListAttributes)
      /\ NullOrAbsent(Arg(call'.args, 2)))
       => /\ ret' = Return(This)
          /\ UNCHANGED <<attrs, ids, idCounter>>]_vars

----------------------------------------------------------------------------
(* C5: strict read.  For a boolean or token attribute whose raw string is  *)
(* present, get returns a value other than null exactly when the raw       *)
(* string is "true" or "false" (boolean attributes) or one of the          *)
(* attribute's own declared tokens, and it never throws.                   *)

\* The raw strings get(name) is to read as a value.
WellFormedRaw(name) ==
  (IF name \in BooleanSupportedAttributes THEN {"true", "false"} ELSE {})
    \cup AriaAttributeTokens(name)

\* What a well-formed raw string reads as.
ReadValue(name, raw) ==
  IF name \in BooleanSupportedAttributes /\ raw \in {"true", "false"}
  THEN Bool(raw = "true") ELSE Str(raw)

C5_StrictRead ==
  (CallOn("get", BooleanSupportedAttributes \cup TokenStringAttributes)
     /\ Key(CallName) \in DOMAIN attrs)
    => LET raw == attrs[Key(CallName)]
       IN  ret = IF raw \in WellFormedRaw(CallName)
                 THEN Return(ReadValue(CallName, raw)) ELSE Return(Null)

\* get of a boolean or token attribute read a malformed raw string as null.
C5_Witness ==
  /\ CallOn("get", BooleanSupportedAttributes \cup TokenStringAttributes)
  /\ Key(CallName) \in DOMAIN attrs
  /\ attrs[Key(CallName)] \in {"TRUE", " true", "", "polite"}
  /\ attrs[Key(CallName)] \notin WellFormedRaw(CallName)
  /\ ret = Return(Null)

----------------------------------------------------------------------------
(* C6: a name that, lowercased, is outside the vocabulary (the empty       *)
(* string included) makes set, get and unset throw the TypeError of an     *)
(* invalid attribute, leaving the attributes, the ids and the ID counter   *)
(* unchanged.                                                              *)

UnknownName(c) ==
  /\ c.op \in {"set", "get", "unset"}
  /\ Len(c.args) >= 1
  /\ c.args[1].t = "string"
  /\ NameOf(c) \notin AriaAttributeNames

C6_InvalidAttribute ==
  [][UnknownName(call')
       => /\ ret' = Throw("InvalidAttribute")
          /\ UNCHANGED <<attrs, ids, idCounter>>]_vars

\* unset('') threw on an Element that carries the attribute under test.
C6_Witness ==
  /\ UnknownName(call)
  /\ call.op = "unset"
  /\ call.args[1] = Str("")
  /\ ret = Throw("InvalidAttribute")
  /\ Key(subject) \in DOMAIN attrs

----------------------------------------------------------------------------
(* C7: no partial writes.  A set(name, value) that throws for its value,   *)
(* on a recognized name, leaves the Element's attributes as they were.     *)

InvalidValue(c, r) ==
  /\ IsCall(c, "set", AriaAttributeNames)
  /\ r = Throw("InvalidValue")

C7_NoPartialWrite == [][InvalidValue(call', ret') => attrs' = attrs]_vars

\* set threw for its value while the attribute held an earlier value.
C7_Witness ==
  /\ InvalidValue(call, ret)
  /\ CallOn("set", NumberAttributes)
  /\ CallValue = Str("one")
  /\ Key(CallName) \in DOMAIN attrs
  /\ attrs[Key(CallName)] = "32"

----------------------------------------------------------------------------
(* C8: omitted value.  For a boolean attribute (boolean only, or boolean   *)
(* with tokens), set(name) without a value stores "true", whatever the     *)
(* attribute held, and get(name) then returns true.                        *)

OmittedValueCall ==
  /\ CallOn("set", BooleanSupportedAttributes)
  /\ Len(call.args) = 1

C8_OmittedIsTrue ==
  OmittedValueCall
    => /\ ret = Return(This)
       /\ Key(CallName) \in DOMAIN attrs
       /\ attrs[Key(CallName)] = "true"
       /\ GetNow(CallName) = Return(Bool(TRUE))

\* set('PRESSED') stored "true".
C8_Witness ==
  /\ OmittedValueCall
  /\ call.args = <<Str("PRESSED")>>
  /\ attrs = [k \in {"aria-pressed"} |-> "true"]

----------------------------------------------------------------------------
(* C9: set(name, collection) on an IDREF list attribute, with an ordered   *)
(* collection of node handles, stores the handles' ids joined by single    *)
(* spaces in input order.  A handle with an id contributes it unchanged;   *)
(* the handles without one are given the next generated ids, in input      *)
(* order; get(name) then returns the joined string.                        *)

\* v is an Array or NodeList, all of whose items are Elements.
IsHandleCollection(v) ==
  /\ v.t \in {"array", "nodelist"}
  /\ \A i \in 1..Len(ItemsOf(v)) : ItemsOf(v)[i].t = "element"

\* The nodes of a collection of handles, in input order.
NodesOf(v) == [i \in 1..Len(ItemsOf(v)) |-> ItemsOf(v)[i].v]

\* Where node n first occurs in nodes.
FirstIndex(nodes, n) == CHOOSE i \in 1..Len(nodes) : nodes[i] = n /\ \A j \in 1..(i - 1) : nodes[j] # n

\* How many nodes without an id come before n's first occurrence.
FreshBefore(old, nodes, n) ==
  LET first == FirstIndex(nodes, n)
  IN  Cardinality({m \in Nodes : /\ old[m] = ""
                                 /\ \E i \in 1..(first - 1) : nodes[i] = m})

\* The id node n of the collection has once the call is over.
ExpectedId(old, counter, nodes, n) ==
  IF old[n] # "" THEN old[n]
  ELSE "easy-aria-id-" \o NaturalToString(counter + FreshBefore(old, nodes, n))

\* The ids of all nodes once the call with the collection nodes is over.
ExpectedIds(old, counter, nodes) ==
  [n \in Nodes |->
     IF \E i \in 1..Len(nodes) : nodes[i] = n
     THEN ExpectedId(old, counter, nodes, n) ELSE old[n]]

C9_ReferenceList ==
  [][(/\ IsHandleCollection(Arg(call'.args, 2))
      /\ IsCall(call', "set", IDREFListAttributes))
       => /\ ret' = Return(This)
          /\ ids' = ExpectedIds(ids, idCounter, NodesOf(Arg(call'.args, 2)))
          /\ Key(NameOf(call')) \in DOMAIN attrs'
          /\ attrs'[Key(NameOf(call'))]
               = Join([i \in 1..Len(ItemsOf(Arg(call'.args, 2))) |->
                         ids'[ItemsOf(Arg(call'.args, 2))[i].v]], " ")
          /\ Get([attrs |-> attrs', ids |-> ids', idCounter |-> idCounter'],
                 <<Str(NameOf(call'))>>).ret
               = Return(Str(attrs'[Key(NameOf(call'))]))]_vars

\* set('owns', [node 3, node 2]) gave node 3 the first generated id and
\* node 2 the second, and stored them in input order.
C9_Witness ==
  /\ call = [op |-> "set", args |-> <<Str("owns"), Array(<<Element(3), Element(2)>>)>>]
  /\ ids[3] = "easy-aria-id-1"
  /\ ids[2] = "easy-aria-id-2"
  /\ attrs[Key("owns")] = "easy-aria-id-1 easy-aria-id-2"

----------------------------------------------------------------------------
(* C10: identifier uniqueness.  The ids generated for distinct nodes are   *)
(* pairwise distinct; a node keeps the id it has, so resolving a handle    *)
(* again yields the same id and generates none: the counter advances by    *)
(* the number of nodes given an id, and a set with a handle that has an id *)
(* stores that id.                                                         *)

\* Node n carries an id in i that the class generated.
HasGeneratedId(i, n) == InitialIds[n] = "" /\ i[n] # ""

C10_UniqueIds ==
  [][/\ \A n \in Nodes, m \in Nodes :
          (n # m /\ HasGeneratedId(ids', n) /\ HasGeneratedId(ids', m))
            => ids'[n] # ids'[m]
     /\ \A n \in Nodes : ids[n] # "" => ids'[n] = ids[n]
     /\ idCounter' = idCounter + Cardinality({n \in Nodes : ids[n] = "" /\ ids'[n] # ""})
     /\ (/\ IsCall(call', "set", IDREFAttributes \cup IDREFListAttributes)
         /\ Arg(call'.args, 2).t = "element"
         /\ ids[Arg(call'.args, 2).v] # "")
          => attrs'[Key(NameOf(call'))] = ids[Arg(call'.args, 2).v]]_vars

\* Nodes 2 and 3 were resolved in that order, and node 2 is resolved again:
\* it still has the first id, which is what is stored.
C10_Witness ==
  /\ IsCall(call, "set", IDREFAttributes \cup IDREFListAttributes)
  /\ CallValue = Element(2)
  /\ ids[2] = "easy-aria-id-1"
  /\ ids[3] = "easy-aria-id-2"
  /\ idCounter = 3
  /\ attrs[Key(CallName)] = "easy-aria-id-1"

----------------------------------------------------------------------------
(* C11: frame of set.  A set(name, value) that succeeds returns the        *)
(* wrapper it was called on, leaves "aria-" + lowercase(name) present, and *)
(* adds or changes no other attribute of the Element: an attribute set     *)
(* earlier under another name keeps its value.                             *)

C11_OneWrite ==
  [][(IsCall(call', "set", AriaAttributeNames) /\ ret'.kind = "return")
       => /\ ret' = Return(This)
          /\ DOMAIN attrs' = DOMAIN attrs \cup {Key(NameOf(call'))}
          /\ \A k \in DOMAIN attrs :
               attrs'[k] # attrs[k] => k = Key(NameOf(call'))]_vars

\* set('posinset', 32) succeeded on an Element whose label was set earlier;
\* the label is still readable.
C11_Witness ==
  /\ call = [op |-> "set", args |-> <<Str("posinset"), Num(32)>>]
  /\ ret = Return(This)
  /\ attrs = [k \in {"aria-label", "aria-posinset"} |->
                IF k = "aria-label" THEN CompanionValue ELSE "32"]
  /\ GetNow("label") = Return(Str(CompanionValue))

----------------------------------------------------------------------------
(* C12: names are matched case-insensitively.  set, get and unset called   *)
(* with a recognized name in another letter case end in the state, and     *)
(* with the outcome, of the same call with the lowercase name; every key   *)
(* of the Element's aria-* attributes is "aria-" + a lowercase name.       *)

\* op called with the arguments args in the world w.
Apply(w, op, args) ==
  CASE op = "set" -> Set(w, args)
    [] op = "get" -> Get(w, args)
    [] op = "unset" -> Unset(w, args)

\* The call c spells a recognized name otherwise than in lower case.
OtherCase(c) ==
  /\ c.op \in {"set", "get", "unset"}
  /\ Len(c.args) >= 1
  /\ c.args[1].t = "string"
  /\ NameOf(c) # c.args[1].v
  /\ NameOf(c) \in AriaAttributeNames

\* The keys of the recognized names.
LowercaseKeys == {Key(n) : n \in AriaAttributeNames}

C12_CaseInsensitive ==
  [][/\ OtherCase(call')
          => Outcome([attrs |-> attrs', ids |-> ids', idCounter |-> idCounter'], ret')
               = Apply(World, call'.op, <<Str(NameOf(call'))>> \o Tail(call'.args))
     /\ DOMAIN attrs' \subseteq LowercaseKeys]_vars

\* get('CHECKED') read the token stored under aria-checked.
C12_Witness ==
  /\ call = [op |-> "get", args |-> <<Str("CHECKED")>>]
  /\ DOMAIN attrs = {"aria-checked", "aria-label"}
  /\ attrs["aria-checked"] = "mixed"
  /\ ret = Return(Str("mixed"))

----------------------------------------------------------------------------
(* C13: set on a number attribute.  A number, bigint or string value whose *)
(* numeric parse is NaN throws for the value; otherwise the canonical      *)
(* string of the parsed number is stored ("007" as "7", 32 as "32").  A    *)
(* value of any other type, or no value, throws for the value.             *)

C13_NumberSet ==
  CallOn("set", NumberAttributes)
    => /\ IF /\ CallValue.t \in {"number", "nan", "bigint", "string"}
             /\ ~IsNaN(ToNumber(CallValue))
          THEN /\ ret = Return(This)
               /\ Key(CallName) \in DOMAIN attrs
               /\ attrs[Key(CallName)] = StringOf(ToNumber(CallValue))
          ELSE ret = Throw("InvalidValue")
       /\ CallValue = Str("007") => attrs[Key(CallName)] = "7"
       /\ CallValue = Num(32) => attrs[Key(CallName)] = "32"
       /\ CallValue \in {Str("one"), NaN, Bool(TRUE), Null} => ret = Throw("InvalidValue")

\* set('VALUENOW', '007') stored "7".
C13_Witness ==
  /\ call = [op |-> "set", args |-> <<Str("VALUENOW"), Str("007")>>]
  /\ ret = Return(This)
  /\ attrs["aria-valuenow"] = "7"

----------------------------------------------------------------------------
(* C14: get on a number attribute whose raw string is present returns null *)
(* exactly when the numeric parse of the raw string is NaN ("one"), and    *)
(* the parsed number otherwise, white space around it tolerated (" 59 "    *)
(* reads as 59).                                                           *)

C14_NumberGet ==
  (CallOn("get", NumberAttributes) /\ Key(CallName) \in DOMAIN attrs)
    => /\ ret = IF IsNaN(StringToNumber(attrs[Key(CallName)]))
                THEN Return(Null)
                ELSE Return(StringToNumber(attrs[Key(CallName)]))
       /\ attrs[Key(CallName)] = "one" => ret = Return(Null)
       /\ attrs[Key(CallName)] = " 59 " => ret = Return(Num(59))

\* get('setsize') read the raw string " 59 " as the number 59.
C14_Witness ==
  /\ call = [op |-> "get", args |-> <<Str("setsize")>>]
  /\ Key("setsize") \in DOMAIN attrs
  /\ attrs[Key("setsize")] = " 59 "
  /\ ret = Return(Num(59))

----------------------------------------------------------------------------
(* C15: set on a token string attribute succeeds exactly when the value is *)
(* a string equal, letter case included, to one of the attribute's own     *)
(* declared tokens, and then stores it; no value, a boolean, and a token   *)
(* of another attribute only, throw for the value.                         *)

C15_TokenSet ==
  CallOn("set", TokenStringAttributes)
    => IF CallValue.t = "string" /\ CallValue.v \in AriaAttributeTokens(CallName)
       THEN /\ ret = Return(This)
            /\ Key(CallName) \in DOMAIN attrs
            /\ attrs[Key(CallName)] = CallValue.v
       ELSE ret = Throw("InvalidValue")

\* set('live', 'none') threw: "none" is a token of other attributes only.
C15_Witness ==
  /\ call = [op |-> "set", args |-> <<Str("live"), Str("none")>>]
  /\ ret = Throw("InvalidValue")

----------------------------------------------------------------------------
(* C16: set on a boolean attribute with a value (one that is not           *)
(* undefined, which the code takes for an omitted value) succeeds exactly  *)
(* when the value is the boolean true or false or, for a boolean attribute *)
(* with tokens, a string equal to one of its own declared tokens; null,    *)
(* numbers, "", "true", "false" and the tokens of other attributes throw   *)
(* for the value.                                                          *)

\* The value v is supplied: typeof v is not 'undefined'.
Supplied(v) == v.t # "undefined"

C16_BooleanSet ==
  (CallOn("set", BooleanSupportedAttributes) /\ Supplied(CallValue))
    => IF CallValue.t = "boolean"
       THEN /\ ret = Return(This)
            /\ Key(CallName) \in DOMAIN attrs
            /\ attrs[Key(CallName)] = (IF CallValue.v THEN "true" ELSE "false")
       ELSE IF /\ CallName \in BooleanWithTokenAttributes
               /\ CallValue.t = "string"
               /\ CallValue.v \in AriaAttributeTokens(CallName)
       THEN /\ ret = Return(This)
            /\ Key(CallName) \in DOMAIN attrs
            /\ attrs[Key(CallName)] = CallValue.v
       ELSE ret = Throw("InvalidValue")

\* set('pressed', 'true') threw: the string is not the boolean.
C16_Witness ==
  /\ call = [op |-> "set", args |-> <<Str("pressed"), Str("true")>>]
  /\ ret = Throw("InvalidValue")

----------------------------------------------------------------------------
(* C17: set on an arbitrary string attribute succeeds exactly when the     *)
(* value is of type string, and stores it as it is (white space, letter    *)
(* case and the empty string kept); any other type, null and no value      *)
(* included, throws for the value.                                         *)

C17_ArbitraryStringSet ==
  CallOn("set", ArbitraryStringAttributes)
    => IF CallValue.t = "string"
       THEN /\ ret = Return(This)
            /\ Key(CallName) \in DOMAIN attrs
            /\ attrs[Key(CallName)] = CallValue.v
       ELSE ret = Throw("InvalidValue")

\* set('keyshortcuts', ' true') stored the string with its leading space.
C17_Witness ==
  /\ call = [op |-> "set", args |-> <<Str("keyshortcuts"), Str(" true")>>]
  /\ ret = Return(This)
  /\ attrs["aria-keyshortcuts"] = " true"

----------------------------------------------------------------------------
(* C18: set on an IDREF or IDREF list attribute throws for a number, a     *)
(* bigint, a boolean, undefined, a plain object, a function, and for no    *)
(* value; the attributes, the ids and the ID counter stay as they were.    *)

RejectedReference(v) ==
  v.t \in {"number", "nan", "bigint", "boolean", "undefined", "object", "function"}

C18_ReferenceRejects ==
  [][(/\ RejectedReference(Arg(call'.args, 2))
      /\ IsCall(call', "set", IDREFAttributes \cup IDREFListAttributes))
       => /\ ret' = Throw("InvalidValue")
          /\ UNCHANGED <<attrs, ids, idCounter>>]_vars

\* set('controls') without a value threw and aria-controls kept its ids.
C18_Witness ==
  /\ call = [op |-> "set", args |-> <<Str("controls")>>]
  /\ ret = Throw("InvalidValue")
  /\ Key("controls") \in DOMAIN attrs
  /\ attrs[Key("controls")] = "easy-aria-id-1 btn"

----------------------------------------------------------------------------
(* C19: a toggle method sets its attribute to "false" when get of the      *)
(* attribute returns true, and to "true" in every other state (false, a    *)
(* token, absent, malformed); it returns the wrapper and changes no other  *)
(* attribute, no id and not the ID counter.                                *)

C19_Toggle ==
  [][call'.op \in ToggleMethods
       => /\ ret' = Return(This)
          /\ DOMAIN attrs' = DOMAIN attrs \cup {Key(MethodAttribute(call'.op))}
          /\ attrs'[Key(MethodAttribute(call'.op))]
               = (IF Get(World, <<Str(MethodAttribute(call'.op))>>).ret = Return(Bool(TRUE))
                  THEN "false" ELSE "true")
          /\ \A k \in DOMAIN attrs :
               k # Key(MethodAttribute(call'.op)) => attrs'[k] = attrs[k]
          /\ UNCHANGED <<ids, idCounter>>]_vars

\* toggleChecked() left aria-checked "false" beside the label set earlier.
C19_Witness ==
  /\ call = [op |-> "toggleChecked", args |-> <<>>]
  /\ ret = Return(This)
  /\ attrs = [k \in {"aria-checked", "aria-label"} |->
                IF k = "aria-label" THEN CompanionValue ELSE "false"]

----------------------------------------------------------------------------
(* C20: a plain boolean method returns true exactly when the raw value of  *)
(* its attribute is "true" ("mixed", absent and malformed values give      *)
(* false), and changes nothing.                                            *)

C20_BooleanMethod ==
  [][call'.op \in BooleanMethods
       => /\ ret' = Return(Bool(/\ Key(MethodAttribute(call'.op)) \in DOMAIN attrs
                                /\ attrs[Key(MethodAttribute(call'.op))] = "true"))
          /\ UNCHANGED <<attrs, ids, idCounter>>]_vars

\* isPressed() is false on aria-pressed="mixed".
C20_Witness ==
  /\ call = [op |-> "isPressed", args |-> <<>>]
  /\ Key("pressed") \in DOMAIN attrs
  /\ attrs[Key("pressed")] = "mixed"
  /\ ret = Return(Bool(FALSE))

----------------------------------------------------------------------------
(* C21: isCurrent, hasPopup and isInvalid.  Called with one of the         *)
(* attribute's tokens, the method returns true exactly when get of the     *)
(* attribute returns that token; called without a value, it returns true   *)
(* exactly when get returns true or one of the attribute's declared        *)
(* tokens (false, absent and malformed values give false).                 *)

C21_TokenMethod ==
  call.op \in TokenMethods
    => LET name == TokenMethodAttribute(call.op)
           current == GetNow(name).value
       IN  /\ Len(call.args) = 0
                => ret = Return(Bool(\/ current.t = "boolean" /\ current.v
                                     \/ /\ current.t = "string"
                                        /\ current.v \in AriaAttributeTokens(name)))
           /\ (Len(call.args) = 1 /\ call.args[1].t = "string"
                 /\ call.args[1].v \in AriaAttributeTokens(name))
                => ret = Return(Bool(/\ current.t = "string"
                                     /\ current.v = call.args[1].v))

\* hasPopup() is false on aria-haspopup="false".
C21_Witness ==
  /\ call = [op |-> "hasPopup", args |-> <<>>]
  /\ Key("haspopup") \in DOMAIN attrs
  /\ attrs[Key("haspopup")] = "false"
  /\ ret = Return(Bool(FALSE))

----------------------------------------------------------------------------
(* C22: resolving a handle that carries an id is idempotent.  A set of an  *)
(* IDREF or IDREF list attribute with a handle, alone or in a collection,  *)
(* leaves the id of every handle that has one as it is; when every handle  *)
(* passed has an id, the ids (space joined, in input order) are stored,    *)
(* no id changes and the ID counter does not advance.                      *)

\* The Elements passed with v: v itself, or the Elements among its items.
HandlesOf(v) ==
  IF v.t = "element" THEN <<v>>
  ELSE IF v.t \in {"array", "nodelist"}
  THEN SelectSeq(ItemsOf(v), LAMBDA x : x.t = "element")
  ELSE <<>>

\* The ids, in i, of the handles passed with v.
IdsOfHandles(i, v) == [k \in 1..Len(HandlesOf(v)) |-> i[HandlesOf(v)[k].v]]

\* Every handle passed with v has an id in i.
AllCarryIds(i, v) == \A k \in 1..Len(HandlesOf(v)) : i[HandlesOf(v)[k].v] # ""

C22_ResolveIsIdempotent ==
  [][(/\ Arg(call'.args, 2).t \in {"element", "array", "nodelist"}
      /\ ret'.kind = "return"
      /\ IsCall(call', "set", IDREFAttributes \cup IDREFListAttributes))
       => /\ \A k \in 1..Len(HandlesOf(Arg(call'.args, 2))) :
               ids[HandlesOf(Arg(call'.args, 2))[k].v] # ""
                 => ids'[HandlesOf(Arg(call'.args, 2))[k].v]
                      = ids[HandlesOf(Arg(call'.args, 2))[k].v]
          /\ AllCarryIds(ids, Arg(call'.args, 2))
               => /\ attrs'[Key(NameOf(call'))]
                       = Join(IdsOfHandles(ids, Arg(call'.args, 2)), " ")
                  /\ ids' = ids
                  /\ idCounter' = idCounter]_vars

\* set('activedescendant', #btn) stored "btn" and generated nothing.
C22_Witness ==
  /\ call = [op |-> "set", args |-> <<Str("activedescendant"), Element(El)>>]
  /\ ret = Return(This)
  /\ attrs[Key("activedescendant")] = "btn"
  /\ ids = InitialIds
  /\ idCounter = 1

----------------------------------------------------------------------------
(* C23: the ID counter.  It starts at 1, never decreases, and is always 1  *)
(* plus the number of ids generated so far; the ids generated by a step    *)
(* are "easy-aria-id-k" for k from the counter before the step to the      *)
(* counter after it, less one; only a set of a reference attribute that    *)
(* resolves a handle without an id advances it (a set called as such, or   *)
(* made by a convenience setter like control).                             *)

\* The nodes given an id by the step from i to j.
NewlyIdentified(i, j) == {n \in Nodes : i[n] = "" /\ j[n] # ""}

C23_Counter ==
  /\ idCounter = 1
  /\ [][/\ idCounter' >= idCounter
        /\ idCounter' = 1 + Cardinality({n \in Nodes : HasGeneratedId(ids', n)})
        /\ {ids'[n] : n \in NewlyIdentified(ids, ids')}
             = {IdPrefix \o NaturalToString(k) : k \in idCounter..(idCounter' - 1)}
        /\ idCounter' # idCounter
             => /\ IsCall(AsSet(call'), "set",
                          IDREFAttributes \cup IDREFListAttributes)
                /\ ~AllCarryIds(ids, Arg(AsSet(call').args, 2))]_vars

\* Two ids have been generated, the counter is 3, and a get leaves it so.
C23_Witness ==
  /\ call.op = "get"
  /\ idCounter = 3
  /\ ids[3] = "easy-aria-id-1"
  /\ ids[2] = "easy-aria-id-2"

----------------------------------------------------------------------------
(* C24: get is a pure read.  Whatever its name (recognized or not), a get  *)
(* leaves the attributes, the id of every node and the ID counter as they  *)
(* were, and the same get made again right after it has the same outcome.  *)

C24_GetIsPure ==
  [][call'.op = "get"
       => /\ UNCHANGED <<attrs, ids, idCounter>>
          /\ Get([attrs |-> attrs', ids |-> ids', idCounter |-> idCounter'],
                 call'.args).ret = ret']_vars

\* get('controls') returned the stored ids; the attribute is still there.
C24_Witness ==
  /\ call = [op |-> "get", args |-> <<Str("controls")>>]
  /\ ret = Return(Str("id-x"))
  /\ Key("controls") \in DOMAIN attrs
  /\ attrs[Key("controls")] = "id-x"

----------------------------------------------------------------------------
(* C25: entries of a collection that are no node handles.  A set of a      *)
(* reference list attribute with a collection holding such an entry (null, *)
(* a string, a number, an object, undefined) does not throw; the stored    *)
(* string is the ids of the handles among the entries, in their order,     *)
(* joined by single spaces, as if the other entries were not there, and    *)
(* the counter advances by the number of handles that lacked an id, so no  *)
(* identifier is used up for the other entries.  InvalidValue is raised    *)
(* for a reference list attribute only on the type of the value itself.    *)

\* The collection v holds an entry that is no Element.
HasOtherEntry(v) ==
  /\ v.t = "array"
  /\ \E k \in 1..Len(v.v) : v.v[k].t # "element"

C25_OtherEntries ==
  [][IsCall(call', "set", IDREFListAttributes)
       => /\ HasOtherEntry(Arg(call'.args, 2))
               => /\ ret' = Return(This)
                  /\ Key(NameOf(call')) \in DOMAIN attrs'
                  /\ attrs'[Key(NameOf(call'))]
                       = Join(IdsOfHandles(ids', Arg(call'.args, 2)), " ")
                  /\ AllCarryIds(ids', Arg(call'.args, 2))
                  /\ idCounter' = idCounter
                       + Cardinality({n \in Nodes :
                           /\ ids[n] = ""
                           /\ \E k \in 1..Len(HandlesOf(Arg(call'.args, 2))) :
                                HandlesOf(Arg(call'.args, 2))[k].v = n})
                  /\ \A n \in Nodes :
                       ids'[n] # ids[n]
                         => \E k \in 1..Len(HandlesOf(Arg(call'.args, 2))) :
                              HandlesOf(Arg(call'.args, 2))[k].v = n
          /\ ret' = Throw("InvalidValue")
               => \/ Len(call'.args) < 2
                  \/ Arg(call'.args, 2).t \notin {"element", "array", "nodelist", "string"}]_vars

\* set('owns', ['id-x', li]) stored the id generated for li, and nothing
\* of the string entry.
C25_Witness ==
  /\ call = [op |-> "set",
             args |-> <<Str("owns"), Array(<<Str("id-x"), Element(NumNodes)>>)>>]
  /\ ret = Return(This)
  /\ ids[NumNodes] = "easy-aria-id-1"
  /\ idCounter = 2
  /\ Key("owns") \in DOMAIN attrs
  /\ attrs[Key("owns")] = "easy-aria-id-1"

----------------------------------------------------------------------------
(* C26: the vocabulary.  The recognized names are the 48 attribute names   *)
(* of AriaAttributes, the same names that unset lists, and each of them is *)
(* handled by exactly one of the seven cases of set (arbitrary string,     *)
(* IDREF, IDREF list, boolean only, boolean with tokens, tokens, number);  *)
(* an unset call is accepted exactly for the names that have a domain.     *)

\* The names set handles, by domain.
SetDomains ==
  {SetArbitraryStringNames, SetIdrefNames, SetIdrefListNames, SetBooleanOnlyNames,
   SetBooleanWithTokenNames, SetTokenNames, SetNumberNames}

\* The domains of a name.
DomainsOf(a) == {D \in SetDomains : a \in D}

\* Every recognized name has one domain, and there are seven domains.
OneDomainEach ==
  /\ Cardinality(SetDomains) = 7
  /\ UnsetNames = AriaAttributeNames
  /\ \A a \in AriaAttributeNames : Cardinality(DomainsOf(a)) = 1

VocabularySize == Cardinality(UnsetNames)

\* unset accepts the names that have a domain, and only them.
UnsetAcceptsTheVocabulary ==
  (call.op = "unset" /\ Len(call.args) >= 1 /\ call.args[1].t = "string")
    => (ret = Return(This) <=> Cardinality(DomainsOf(NameOf(call))) = 1)

C26_Vocabulary ==
  /\ VocabularySize = 48
  /\ OneDomainEach
  /\ UnsetAcceptsTheVocabulary

\* The statement with 38 names.
C26_Original ==
  /\ VocabularySize = 38
  /\ OneDomainEach
  /\ UnsetAcceptsTheVocabulary

\* unset('valuenow') was accepted: a number attribute, one of the names
\* beyond the first 38.
C26_Witness ==
  /\ call = [op |-> "unset", args |-> <<Str("valuenow")>>]
  /\ ret = Return(This)
  /\ DomainsOf("valuenow") = {SetNumberNames}

----------------------------------------------------------------------------
(* C27: a generated id is unique in the document.  The id that a set       *)
(* assigns to a node without one differs from the id of every other node   *)
(* at that moment, whether that id was generated or given in the markup.   *)

C27_GeneratedIdIsUnique ==
  [][\A n \in NewlyIdentified(ids, ids') :
       \A m \in Nodes \ {n} : ids'[m] # ids'[n]]_vars

----------------------------------------------------------------------------
(* C28: a failed set assigns no id.  A set that throws (no arguments, a    *)
(* name that is no string, an unrecognized name, a value the attribute     *)
(* does not take) leaves the id of every node and the ID counter as they   *)
(* were, also when an Element without id was passed.  An id is assigned,   *)
(* and the counter advanced, only by a set of a reference attribute that   *)
(* returns and has written the ids of the handles it was passed.  The set  *)
(* made by a convenience setter (control, label, check, ...) counts as a   *)
(* set.                                                                    *)

C28_FailedSetAssignsNoId ==
  [][/\ (ret'.kind = "throw" /\ AsSet(call').op = "set")
          => UNCHANGED <<attrs, ids, idCounter>>
     /\ (ids' # ids \/ idCounter' # idCounter)
          => /\ IsCall(AsSet(call'), "set", IDREFAttributes \cup IDREFListAttributes)
             /\ ret' = Return(This)
             /\ Key(NameOf(AsSet(call'))) \in DOMAIN attrs'
             /\ attrs'[Key(NameOf(AsSet(call')))]
                  = Join(IdsOfHandles(ids', Arg(AsSet(call').args, 2)), " ")]_vars

\* set('sth', li) threw on the name; li, passed as value, still has no id.
C28_Witness ==
  /\ call = [op |-> "set", args |-> <<Str("sth"), Element(NumNodes)>>]
  /\ ret = Throw("InvalidAttribute")
  /\ ids[NumNodes] = ""
  /\ idCounter = 1

----------------------------------------------------------------------------
(* C29: the three switches agree.  set, get and unset have case labels for *)
(* the same names; the names that set handles as one domain are handled by *)
(* get as that domain (the three string-valued domains are read verbatim); *)
(* for the domains with tokens the labels set accepts are the labels get   *)
(* returns.  On every call made, the three methods agree on whether the    *)
(* name is recognized, and a string that is no boolean literal is accepted *)
(* by set for a token domain exactly when get reads that string as itself. *)

SetNames == UNION SetDomains
GetNames ==
  GetVerbatimNames \cup GetTokenNames \cup GetBooleanWithTokenNames
    \cup GetBooleanOnlyNames \cup GetNumberNames

\* The case labels of the three switches, compared.
SameTables ==
  /\ SetNames = GetNames
  /\ SetNames = UnsetNames
  /\ SetArbitraryStringNames \cup SetIdrefNames \cup SetIdrefListNames = GetVerbatimNames
  /\ SetBooleanOnlyNames = GetBooleanOnlyNames
  /\ SetBooleanWithTokenNames = GetBooleanWithTokenNames
  /\ SetTokenNames = GetTokenNames
  /\ SetNumberNames = GetNumberNames
  /\ \A a \in SetTokenNames : SetTokens(a) = GetTokens(a)
  /\ \A a \in SetBooleanWithTokenNames : SetBooleanTokens(a) = GetBooleanTokens(a)

\* The outcome is the TypeError of an unrecognized name.
Unrecognized(r) == r = Throw("InvalidAttribute")

\* get reads the raw string v of the attribute a as v itself.
ReadsAsItself(a, v) ==
  \/ a \in GetTokenNames /\ GetToken(a, v) = Return(v)
  \/ a \in GetBooleanWithTokenNames /\ GetBooleanWithTokens(a, v) = Return(v)

C29_TablesAgree ==
  /\ SameTables
  /\ (call.op \in {"set", "get", "unset"} /\ Len(call.args) >= 1
        /\ call.args[1].t = "string")
       => /\ Unrecognized(Set(World, <<call.args[1]>>).ret)
               <=> Unrecognized(Get(World, <<call.args[1]>>).ret)
          /\ Unrecognized(Get(World, <<call.args[1]>>).ret)
               <=> Unrecognized(Unset(World, <<call.args[1]>>).ret)
          /\ Unrecognized(ret) <=> Unrecognized(Get(World, <<call.args[1]>>).ret)
  /\ (/\ CallValue.t = "string"
      /\ CallValue.v \notin {"true", "false"}
      /\ CallOn("set", SetTokenNames \cup SetBooleanWithTokenNames))
       => (Returned <=> ReadsAsItself(CallName, CallValue))

\* set('relevant', 'additions text') was accepted, and get reads the two
\* words as one token.
C29_Witness ==
  /\ call = [op |-> "set", args |-> <<Str("relevant"), Str("additions text")>>]
  /\ ret = Return(This)
  /\ GetNow("relevant") = Return(Str("additions text"))

----------------------------------------------------------------------------
(* C30: attributes written through the class only.  Starting from an       *)
(* Element without aria-* attributes and making set, get and unset calls   *)
(* only, every attribute that is present is read by get as a value, never  *)
(* as null; an attribute appears or changes only in a set of its name that *)
(* returns, and disappears only in an unset of its name, so a present      *)
(* attribute holds what the last accepted set of its name wrote.           *)

\* Every attribute present is read by get as a value other than null.
PresentIsWellFormed ==
  /\ DOMAIN attrs \subseteq {Key(subject), Key(Companion(subject))}
  /\ \A a \in {subject, Companion(subject)} :
       Key(a) \in DOMAIN attrs
         => /\ GetNow(a).kind = "return"
            /\ GetNow(a).value # Null

\* A step changes the attribute k only as an accepted set or unset of k.
WrittenBySetOnly ==
  \A k \in DOMAIN attrs \cup DOMAIN attrs' :
    (\/ k \notin DOMAIN attrs
     \/ k \notin DOMAIN attrs'
     \/ attrs'[k] # attrs[k])
      => /\ ret' = Return(This)
         /\ k = Key(NameOf(call'))
         /\ IF k \in DOMAIN attrs' THEN call'.op = "set" ELSE call'.op = "unset"

C30_WrittenThroughTheClass ==
  /\ []PresentIsWellFormed
  /\ [][WrittenBySetOnly]_vars

\* set('checked', 'one') was rejected after set('checked', 'mixed'): the
\* attribute still holds the accepted token and get returns it.
C30_Witness ==
  /\ call = [op |-> "set", args |-> <<Str("checked"), Str("one")>>]
  /\ ret = Throw("InvalidValue")
  /\ Key("checked") \in DOMAIN attrs
  /\ attrs[Key("checked")] = "mixed"
  /\ GetNow("checked") = Return(Str("mixed"))

=============================================================================
